---- MODULE Spec2Model ----
(***************************************************************************)
(* State-machine model of src/src/index.js: the ingestion pipeline         *)
(* (fetchLyricsAndStore), the similarity search (findSimilarSongs) and the *)
(* GridFS download (downloadSongFromGridFS), run by concurrent tasks of    *)
(* one Node process that share the 'songs' collection, the 'songs_audio'   *)
(* bucket and the storage connection of db.js.                             *)
(*                                                                         *)
(* Abstractions: vectors have small integer components and similarity      *)
(* scores are compared exactly (dot / sqrt(den2)), NaN being kept as a     *)
(* separate flag; the passthrough fields of a song document (language,     *)
(* explicit, flags, created_at, filename) are left out; the song buffer is *)
(* not given a content.                                                    *)
(***************************************************************************)
EXTENDS Integers, Sequences, FiniteSets, TLC

\* ------------------------------------------------------------------ bounds

\* Concurrent tasks of the process.
Tasks == {"t1", "t2"}

\* Upload streams the runs may open altogether.
MaxBlobs == 2

\* Largest corpus of the ranking specification.
MaxCorpus == 6

\* Largest corpus of the scoring specification.
MaxScoreCorpus == 3

\* The slice bound of line 145.
TopK == 5

\* Values the songUrl constant (line 18) takes over the runs.
SongUrls == {1, 2}

\* Vectors the embedding model may answer with (one of length 2, one of length 1).
EmbedVecs == {<<1, 0>>, <<1>>}

\* Embeddings of the corpora of the ranking specification.
CorpusVecs == {<<1, 0>>, <<0, 1>>, <<1, 1>>}

\* Embeddings of the corpora of the scoring specification: the above, a vector
\* of zero magnitude and a vector of another length.
ScoreVecs == CorpusVecs \cup {<<0, 0>>, <<1>>}

\* The second argument a caller may pass to findSimilarSongs.
KArgs == {0, 5}

\* ------------------------------------------------- analysis-service answers

Undefined == [defined |-> FALSE, values |-> <<>>]

Mapping(vs) == [defined |-> TRUE, values |-> vs]

\* The parsed body of an analysis-service answer (the fields lines 89-114 read).
FullBody ==
  [summary |-> [defined |-> TRUE, value |-> "s"],
   keywords |-> Mapping(<<"k1", "k2">>),
   moods |-> Mapping(<<"m">>),
   themes |-> Mapping(<<"t">>)]

NoKeywords == [FullBody EXCEPT !.keywords = Undefined]

NoMoods == [FullBody EXCEPT !.moods = Undefined]

NoThemes == [FullBody EXCEPT !.themes = Undefined]

\* A document with its summary and none of the optional mappings.
SummaryOnly ==
  [FullBody EXCEPT !.keywords = Undefined, !.moods = Undefined,
                   !.themes = Undefined]

\* The body of an error answer: none of the fields.
ErrorBody ==
  [summary |-> [defined |-> FALSE, value |-> ""],
   keywords |-> Undefined, moods |-> Undefined, themes |-> Undefined]

Bodies == {FullBody, NoKeywords, NoMoods, NoThemes, SummaryOnly, ErrorBody}

\* An answer: its HTTP status is a success or not, its text is JSON or not. A
\* success carries the document, whole or with a mapping missing, or a
\* malformed one; a non-success carries an error body.
Responses ==
  [ok : {TRUE}, json : {TRUE}, body : Bodies]
    \cup {[ok |-> FALSE, json |-> TRUE, body |-> ErrorBody]}
    \cup [ok : BOOLEAN, json : {FALSE}, body : {ErrorBody}]

NoResponse == [ok |-> TRUE, json |-> FALSE, body |-> ErrorBody]

\* ----------------------------------------------------------- pure functions

\* Array.prototype.join(' '): an undefined element is joined as "".
RECURSIVE join(_)
join(s) ==
  IF s = <<>> THEN ""
  ELSE IF Len(s) = 1 THEN s[1]
  ELSE s[1] \o " " \o join(Tail(s))

\* Object.values(m || {})
valuesOrEmpty(m) == IF m.defined THEN m.values ELSE <<>>

\* The text with the themes ahead of the moods.
combinedText_themesFirst(result) ==
  join(<<(IF result.summary.defined THEN result.summary.value ELSE "")>>
         \o valuesOrEmpty(result.keywords)
         \o valuesOrEmpty(result.themes)
         \o valuesOrEmpty(result.moods))

\* Lines 89-94.
combinedText(result) ==
  join(<<(IF result.summary.defined THEN result.summary.value ELSE "")>>
         \o valuesOrEmpty(result.keywords)
         \o valuesOrEmpty(result.moods)
         \o valuesOrEmpty(result.themes))

\* Lines 112-114: Object.values(undefined) throws a TypeError.
assembleThrows(result) ==
  \/ ~result.keywords.defined
  \/ ~result.moods.defined
  \/ ~result.themes.defined

\* Lines 104-118.
songData(url, gridFSId, result, embedding) ==
  [songUrl |-> url,
   audioFileId |-> gridFSId,
   summary |-> result.summary,
   keywords |-> result.keywords.values,
   ddex_moods |-> result.moods.values,
   ddex_themes |-> result.themes.values,
   embedding |-> embedding]

RECURSIVE sumTo(_, _, _)
\* sum over i in 1..n of a[i] * b[i]
sumTo(a, b, n) == IF n = 0 THEN 0 ELSE sumTo(a, b, n - 1) + a[n] * b[n]

\* Lines 70-75. dot is NaN as soon as vecB[i] is undefined for some index of
\* vecA; the quotient is NaN for 0 / 0. A score is dot / sqrt(den2).
cosineSimilarity(vecA, vecB) ==
  LET partial == Len(vecB) < Len(vecA)
      dot == IF partial THEN 0 ELSE sumTo(vecA, vecB, Len(vecA))
      magA2 == sumTo(vecA, vecA, Len(vecA))
      magB2 == sumTo(vecB, vecB, Len(vecB))
  IN [nan |-> partial \/ (magA2 * magB2 = 0 /\ dot = 0),
      dot |-> dot,
      den2 |-> magA2 * magB2]

\* x < y for two scores that are numbers (den2 = 0 with dot # 0 is +-Infinity).
scoreLess(x, y) ==
  LET sgn(d) == IF d > 0 THEN 1 ELSE IF d < 0 THEN -1 ELSE 0
      \* sign-carrying squares: sgn(d) * d^2 / den2
      lhs == sgn(x.dot) * x.dot * x.dot
      rhs == sgn(y.dot) * y.dot * y.dot
  IN IF x.den2 = 0 \/ y.den2 = 0
       THEN IF x.den2 = 0 /\ y.den2 = 0 THEN sgn(x.dot) < sgn(y.dot)
            ELSE IF x.den2 = 0 THEN x.dot < 0
            ELSE y.dot > 0
       ELSE lhs * y.den2 < rhs * x.den2

\* Line 144: the comparator (a, b) => b.similarity - a.similarity is positive,
\* i.e. a goes after b, when a's score is the smaller; NaN compares as 0.
comparePositive(a, b) ==
  /\ ~a.similarity.nan
  /\ ~b.similarity.nan
  /\ scoreLess(a.similarity, b.similarity)

RECURSIVE insertSorted(_, _)
\* One step of the stable insertion: x moves left past every element the
\* comparator puts after it.
insertSorted(s, x) ==
  IF s = <<>> THEN <<x>>
  ELSE IF comparePositive(s[Len(s)], x)
    THEN Append(insertSorted(SubSeq(s, 1, Len(s) - 1), x), s[Len(s)])
    ELSE Append(s, x)

RECURSIVE sort(_)
\* Array.prototype.sort with the comparator of line 144 (stable).
sort(s) ==
  IF s = <<>> THEN <<>>
  ELSE insertSorted(sort(SubSeq(s, 1, Len(s) - 1)), s[Len(s)])

\* Array.prototype.slice(0, n)
slice(s, n) == SubSeq(s, 1, IF Len(s) < n THEN Len(s) ELSE n)

\* The ranking keeping one song fewer.
topSongsOf_sliceFour(queryEmbedding, songs) ==
  LET similarities ==
        [i \in 1..Len(songs) |->
           [songId |-> i,
            similarity |-> cosineSimilarity(queryEmbedding, songs[i].embedding)]]
  IN slice(sort(similarities), TopK - 1)

\* Lines 139-145: score every song, sort by descending similarity, keep the
\* first five.
topSongsOf(queryEmbedding, songs) ==
  LET similarities ==
        [i \in 1..Len(songs) |->
           [songId |-> i,
            similarity |-> cosineSimilarity(queryEmbedding, songs[i].embedding)]]
  IN slice(sort(similarities), TopK)

\* -------------------------------------------------------------------- state

VARIABLES
  records,   \* the documents of the 'songs' collection, in insertion order
  bucket,    \* the files of the 'songs_audio' bucket: id i is bucket[i]
  connOpen,  \* the storage connection of db.js is open
  task       \* each task's position and locals

vars == <<records, bucket, connOpen, task>>

\* A task between two calls. thrown, calls, connects, closes and outcome record
\* what the current call has done; response.ok is the status the code never
\* reads.
IdleTask ==
  [pc |-> "idle", op |-> "none", songUrl |-> 0, response |-> NoResponse,
   text |-> "", embedding |-> <<>>, uploadStream |-> 0, gridFSId |-> 0,
   queryEmbedding |-> <<>>, k |-> 0, topSongs |-> <<>>, fileId |-> 0,
   thrown |-> "none", calls |-> {}, connects |-> 0, closes |-> 0,
   outcome |-> "none"]

Init ==
  /\ records = <<>>
  /\ bucket = <<>>
  /\ connOpen = FALSE
  /\ task = [p \in Tasks |-> IdleTask]

\* db.js: connectToDatabase opens (or reuses) the shared connection.
connectToDatabase == connOpen' = TRUE

\* db.js: closeConnection closes the shared connection.
closeConnection == connOpen' = FALSE

\* The positions of fetchLyricsAndStore before the upload stream is opened.
PreUpload ==
  {"connect", "exists_connect", "findOne", "fetch", "embed", "getSongBuffer"}

\* Upload streams opened or still to be opened by the calls under way.
blobsClaimed ==
  Len(bucket)
    + Cardinality({q \in Tasks : task[q].op = "ingest" /\ task[q].pc \in PreUpload})

\* A throw inside the try block of lines 79-122: the block's constants go out
\* of scope, control passes to catch (line 124, a log) and then to finally.
catch(t, stage, call) ==
  [IdleTask EXCEPT
     !.pc = "finally", !.op = t.op, !.songUrl = t.songUrl,
     !.thrown = stage, !.calls = t.calls \cup call,
     !.connects = t.connects, !.closes = t.closes, !.outcome = "failed"]

\* A rejection that leaves an async function with no handler of its own.
reject(t, stage, call) ==
  [t EXCEPT !.pc = "done", !.thrown = stage, !.calls = @ \cup call,
            !.outcome = "rejected"]

\* ------------------------------------------------------ fetchLyricsAndStore

\* Line 173 (and any further caller): the call, with the songUrl of line 18.
fetchLyricsAndStore(p, url) ==
  /\ task[p].pc = "idle"
  /\ blobsClaimed < MaxBlobs
  /\ task' = [task EXCEPT ![p] =
       [IdleTask EXCEPT !.pc = "connect", !.op = "ingest", !.songUrl = url]]
  /\ UNCHANGED <<records, bucket, connOpen>>

\* Line 78: outside the try block, so a failure leaves the function.
fetchLyricsAndStore_connect(p) ==
  /\ task[p].pc = "connect"
  /\ \/ /\ connectToDatabase
        /\ task' = [task EXCEPT ![p] =
             [@ EXCEPT !.pc = "exists_connect", !.connects = @ + 1]]
     \/ /\ task' = [task EXCEPT ![p] = reject(@, "connect", {})]
        /\ UNCHANGED connOpen
  /\ UNCHANGED <<records, bucket>>

\* Line 64, called from line 80.
songExists_connect(p) ==
  /\ task[p].pc = "exists_connect"
  /\ \/ /\ connectToDatabase
        /\ task' = [task EXCEPT ![p] =
             [@ EXCEPT !.pc = "findOne", !.connects = @ + 1]]
     \/ /\ task' = [task EXCEPT ![p] = catch(@, "songExists", {})]
        /\ UNCHANGED connOpen
  /\ UNCHANGED <<records, bucket>>

\* songExists answering false whatever the collection holds.
songExists_alwaysFalse(url) == FALSE

\* Line 66-67: song !== null.
songExists(url) == \E i \in 1..Len(records) : records[i].songUrl = url

\* The lookup without the return of line 83: the pipeline goes on after the log.
songExists_findOne_noReturn(p) ==
  /\ task[p].pc = "findOne"
  /\ \/ task' = [task EXCEPT ![p] =
          IF songExists(@.songUrl)
            THEN [@ EXCEPT !.pc = "fetch", !.calls = @ \cup {"findOne"},
                           !.outcome = "skipped"]
            ELSE [@ EXCEPT !.pc = "fetch", !.calls = @ \cup {"findOne"}]]
     \/ task' = [task EXCEPT ![p] = catch(@, "findOne", {"findOne"})]
  /\ UNCHANGED <<records, bucket, connOpen>>

\* Lines 66-67 and 80-84: the lookup, and the early return when it finds a song.
songExists_findOne(p) ==
  /\ task[p].pc = "findOne"
  /\ \/ task' = [task EXCEPT ![p] =
          IF songExists(@.songUrl)
            THEN [@ EXCEPT !.pc = "finally", !.calls = @ \cup {"findOne"},
                           !.outcome = "skipped"]
            ELSE [@ EXCEPT !.pc = "fetch", !.calls = @ \cup {"findOne"}]]
     \/ task' = [task EXCEPT ![p] = catch(@, "findOne", {"findOne"})]
  /\ UNCHANGED <<records, bucket, connOpen>>

\* Lines 86-97: fetch rejects on a network failure, response.json() on a body
\* that is not JSON; the status of the response is not looked at. The text is
\* then composed and handed to embedContent.
fetchLyricsAndStore_fetch(p) ==
  /\ task[p].pc = "fetch"
  /\ \/ task' = [task EXCEPT ![p] = catch(@, "fetch", {"fetch"})]
     \/ \E r \in Responses :
          task' = [task EXCEPT ![p] =
            IF r.json
              THEN [@ EXCEPT !.pc = "embed", !.response = r,
                             !.text = combinedText(r.body),
                             !.calls = @ \cup {"fetch"}]
              ELSE catch(@, "json", {"fetch"})]
  /\ UNCHANGED <<records, bucket, connOpen>>

\* Lines 97-98: the embedding model answers.
fetchLyricsAndStore_embed(p) ==
  /\ task[p].pc = "embed"
  /\ \/ task' = [task EXCEPT ![p] = catch(@, "embedContent", {"embedContent"})]
     \/ \E v \in EmbedVecs :
          task' = [task EXCEPT ![p] =
            [@ EXCEPT !.pc = "getSongBuffer", !.embedding = v,
                      !.calls = @ \cup {"embedContent"}]]
  /\ UNCHANGED <<records, bucket, connOpen>>

\* uploadToGridFS resolving to the id as soon as the stream is opened.
uploadToGridFS_resolveOnOpen(p) ==
  /\ bucket' = Append(bucket, "partial")
  /\ task' = [task EXCEPT ![p] =
       IF assembleThrows(@.response.body)
         THEN catch(@, "songData", {"getSongBuffer", "uploadToGridFS"})
         ELSE [@ EXCEPT !.pc = "insertOne", !.gridFSId = Len(bucket) + 1,
                        !.calls = @ \cup {"getSongBuffer", "uploadToGridFS"}]]

\* Lines 45-52, entered from line 102: the upload stream is opened under a new
\* id and the buffer piped into it; the promise is pending.
uploadToGridFS(p) ==
  /\ bucket' = Append(bucket, "partial")
  /\ task' = [task EXCEPT ![p] =
       [@ EXCEPT !.pc = "upload", !.uploadStream = Len(bucket) + 1,
                 !.calls = @ \cup {"getSongBuffer", "uploadToGridFS"}]]

\* Lines 58-61 and 100-102: the payload arrives and is handed to uploadToGridFS.
getSongBuffer(p) ==
  /\ task[p].pc = "getSongBuffer"
  /\ \/ /\ task' = [task EXCEPT ![p] = catch(@, "getSongBuffer", {"getSongBuffer"})]
        /\ UNCHANGED bucket
     \/ uploadToGridFS(p)
  /\ UNCHANGED <<records, connOpen>>

\* Line 54: 'finish', the file is written and the promise resolves to its id;
\* lines 104-120 then build songData, or throw, before the insert is awaited.
uploadToGridFS_finish(p) ==
  /\ task[p].pc = "upload"
  /\ bucket' = [bucket EXCEPT ![task[p].uploadStream] = "written"]
  /\ task' = [task EXCEPT ![p] =
       IF assembleThrows(@.response.body)
         THEN catch(@, "songData", {})
         ELSE [@ EXCEPT !.pc = "insertOne", !.gridFSId = task[p].uploadStream]]
  /\ UNCHANGED <<records, connOpen>>

\* 'error' resolving the promise to the stream's id like 'finish'.
uploadToGridFS_error_resolves(p) ==
  /\ task[p].pc = "upload"
  /\ task' = [task EXCEPT ![p] =
       IF assembleThrows(@.response.body)
         THEN catch(@, "songData", {})
         ELSE [@ EXCEPT !.pc = "insertOne", !.gridFSId = task[p].uploadStream]]
  /\ UNCHANGED <<records, bucket, connOpen>>

\* Line 53: 'error', the promise rejects; what was written stays in the bucket.
uploadToGridFS_error(p) ==
  /\ task[p].pc = "upload"
  /\ task' = [task EXCEPT ![p] = catch(@, "uploadToGridFS", {})]
  /\ UNCHANGED <<records, bucket, connOpen>>

\* Lines 120-122.
fetchLyricsAndStore_insertOne(p) ==
  /\ task[p].pc = "insertOne"
  /\ \/ /\ records' = Append(records,
               songData(task[p].songUrl, task[p].gridFSId,
                        task[p].response.body, task[p].embedding))
        /\ task' = [task EXCEPT ![p] =
             [@ EXCEPT !.pc = "finally", !.calls = @ \cup {"insertOne"},
                       !.outcome = "inserted"]]
     \/ /\ task' = [task EXCEPT ![p] = catch(@, "insertOne", {"insertOne"})]
        /\ UNCHANGED records
  /\ UNCHANGED <<bucket, connOpen>>

\* The early return of line 83 leaving without the close.
fetchLyricsAndStore_finally_skipLeaks(p) ==
  /\ task[p].pc = "finally"
  /\ IF task[p].outcome = "skipped"
       THEN /\ task' = [task EXCEPT ![p] = [@ EXCEPT !.pc = "done"]]
            /\ UNCHANGED connOpen
       ELSE /\ closeConnection
            /\ task' = [task EXCEPT ![p] =
                 [@ EXCEPT !.pc = "done", !.closes = @ + 1]]
  /\ UNCHANGED <<records, bucket>>

\* Lines 125-127.
fetchLyricsAndStore_finally(p) ==
  /\ task[p].pc = "finally"
  /\ closeConnection
  /\ task' = [task EXCEPT ![p] = [@ EXCEPT !.pc = "done", !.closes = @ + 1]]
  /\ UNCHANGED <<records, bucket>>

\* ---------------------------------------------------------- findSimilarSongs

\* A call findSimilarSongs(queryText, k): the function declares one parameter.
findSimilarSongs(p, k) ==
  /\ task[p].pc = "idle"
  /\ task' = [task EXCEPT ![p] =
       [IdleTask EXCEPT !.pc = "s_embed", !.op = "search", !.k = k]]
  /\ UNCHANGED <<records, bucket, connOpen>>

\* Lines 132-133.
findSimilarSongs_embed(p) ==
  /\ task[p].pc = "s_embed"
  /\ \/ task' = [task EXCEPT ![p] = reject(@, "embedContent", {"embedContent"})]
     \/ \E v \in EmbedVecs :
          task' = [task EXCEPT ![p] =
            [@ EXCEPT !.pc = "s_connect", !.queryEmbedding = v,
                      !.calls = @ \cup {"embedContent"}]]
  /\ UNCHANGED <<records, bucket, connOpen>>

\* Line 135.
findSimilarSongs_connect(p) ==
  /\ task[p].pc = "s_connect"
  /\ \/ /\ connectToDatabase
        /\ task' = [task EXCEPT ![p] =
             [@ EXCEPT !.pc = "s_find", !.connects = @ + 1]]
     \/ /\ task' = [task EXCEPT ![p] = reject(@, "connect", {})]
        /\ UNCHANGED connOpen
  /\ UNCHANGED <<records, bucket>>

\* Lines 138-150: the scan, then the ranking.
findSimilarSongs_find(p) ==
  /\ task[p].pc = "s_find"
  /\ \/ task' = [task EXCEPT ![p] =
          [@ EXCEPT !.pc = "s_close", !.calls = @ \cup {"find"},
                    !.topSongs = topSongsOf(task[p].queryEmbedding, records)]]
     \/ task' = [task EXCEPT ![p] = reject(@, "find", {"find"})]
  /\ UNCHANGED <<records, bucket, connOpen>>

\* Lines 152-153.
findSimilarSongs_close(p) ==
  /\ task[p].pc = "s_close"
  /\ closeConnection
  /\ task' = [task EXCEPT ![p] =
       [@ EXCEPT !.pc = "done", !.closes = @ + 1, !.outcome = "returned"]]
  /\ UNCHANGED <<records, bucket>>

\* ---------------------------------------------------- downloadSongFromGridFS

\* A call downloadSongFromGridFS(fileId): 0 stands for a string that is no
\* ObjectId, Len(bucket) + 1 for the id of no file.
downloadSongFromGridFS(p, fileId) ==
  /\ task[p].pc = "idle"
  /\ task' = [task EXCEPT ![p] =
       [IdleTask EXCEPT !.pc = "d_connect", !.op = "download", !.fileId = fileId]]
  /\ UNCHANGED <<records, bucket, connOpen>>

\* Line 157.
downloadSongFromGridFS_connect(p) ==
  /\ task[p].pc = "d_connect"
  /\ \/ /\ connectToDatabase
        /\ task' = [task EXCEPT ![p] =
             [@ EXCEPT !.pc = "d_pipe", !.connects = @ + 1]]
     \/ /\ task' = [task EXCEPT ![p] = reject(@, "connect", {})]
        /\ UNCHANGED connOpen
  /\ UNCHANGED <<records, bucket>>

\* Lines 160-163: new ObjectId throws inside the executor for a bad string.
downloadSongFromGridFS_pipe(p) ==
  /\ task[p].pc = "d_pipe"
  /\ task' = [task EXCEPT ![p] =
       IF @.fileId = 0
         THEN reject(@, "ObjectId", {})
         ELSE [@ EXCEPT !.pc = "d_wait", !.calls = @ \cup {"openDownloadStream"}]]
  /\ UNCHANGED <<records, bucket, connOpen>>

\* The file the download stream reads is in the bucket, fully written.
fileReadable(fileId) ==
  /\ fileId \in 1..Len(bucket)
  /\ bucket[fileId] = "written"

\* Lines 165-168: 'finish' of the write stream.
downloadSongFromGridFS_finish(p) ==
  /\ task[p].pc = "d_wait"
  /\ fileReadable(task[p].fileId)
  /\ task' = [task EXCEPT ![p] = [@ EXCEPT !.pc = "done", !.outcome = "resolved"]]
  /\ UNCHANGED <<records, bucket, connOpen>>

\* Line 164: 'error' of the write stream (pipe returns its destination).
downloadSongFromGridFS_writeError(p) ==
  /\ task[p].pc = "d_wait"
  /\ task' = [task EXCEPT ![p] = reject(@, "writeStream", {})]
  /\ UNCHANGED <<records, bucket, connOpen>>

\* Line 163: 'error' of the download stream has no listener: the promise is
\* neither resolved nor rejected.
downloadSongFromGridFS_readError(p) ==
  /\ task[p].pc = "d_wait"
  /\ task' = [task EXCEPT ![p] =
       [@ EXCEPT !.pc = "pending", !.thrown = "downloadStream",
                 !.outcome = "pending"]]
  /\ UNCHANGED <<records, bucket, connOpen>>

\* Lines 77-128 as their caller sees them: the promise of fetchLyricsAndStore
\* is rejected by a throw outside the try block and is otherwise fulfilled with
\* undefined, the function having no return value and the catch only a log.
settlement(t) ==
  IF t.outcome = "rejected"
    THEN [state |-> "rejected", value |-> t.thrown]
    ELSE [state |-> "fulfilled", value |-> "undefined"]

\* The positions at which a call has a read or a write of the collection or of
\* the bucket under way.
StoreAccess == {"findOne", "upload", "insertOne", "s_find", "d_wait"}

\* The caller takes the outcome of a finished call.
Return(p) ==
  /\ task[p].pc = "done"
  /\ task' = [task EXCEPT ![p] = IdleTask]
  /\ UNCHANGED <<records, bucket, connOpen>>

\* ------------------------------------------------------------ specifications

Step(p) ==
  \/ \E url \in SongUrls : fetchLyricsAndStore(p, url)
  \/ fetchLyricsAndStore_connect(p)
  \/ songExists_connect(p)
  \/ songExists_findOne(p)
  \/ fetchLyricsAndStore_fetch(p)
  \/ fetchLyricsAndStore_embed(p)
  \/ getSongBuffer(p)
  \/ uploadToGridFS_finish(p)
  \/ uploadToGridFS_error(p)
  \/ fetchLyricsAndStore_insertOne(p)
  \/ fetchLyricsAndStore_finally(p)
  \/ \E k \in KArgs : findSimilarSongs(p, k)
  \/ findSimilarSongs_embed(p)
  \/ findSimilarSongs_connect(p)
  \/ findSimilarSongs_find(p)
  \/ findSimilarSongs_close(p)
  \/ \E fileId \in 0..(Len(bucket) + 1) : downloadSongFromGridFS(p, fileId)
  \/ downloadSongFromGridFS_connect(p)
  \/ downloadSongFromGridFS_pipe(p)
  \/ downloadSongFromGridFS_finish(p)
  \/ downloadSongFromGridFS_writeError(p)
  \/ downloadSongFromGridFS_readError(p)
  \/ Return(p)

\* Tasks interleave at every await.
Next == \E p \in Tasks : Step(p)

Spec == Init /\ [][Next]_vars

\* Calls made one after the other: a task steps only while every other task is
\* between two calls.
NextSeq ==
  \E p \in Tasks :
    /\ \A q \in Tasks \ {p} : task[q].pc = "idle"
    /\ Step(p)

SpecSeq == Init /\ [][NextSeq]_vars

\* The ranking alone: the collection holds any corpus of up to MaxCorpus songs
\* ingested earlier (song i from the i-th url, its file written), and the
\* tasks only search, one call at a time.
Corpora == UNION {[1..n -> CorpusVecs] : n \in 0..MaxCorpus}

InitRank ==
  /\ \E c \in Corpora :
       /\ records = [i \in 1..Len(c) |-> songData(i, i, FullBody, c[i])]
       /\ bucket = [i \in 1..Len(c) |-> "written"]
  /\ connOpen = FALSE
  /\ task = [p \in Tasks |-> IdleTask]

RankStep(p) ==
  \/ \E k \in KArgs : findSimilarSongs(p, k)
  \/ findSimilarSongs_embed(p)
  \/ findSimilarSongs_connect(p)
  \/ findSimilarSongs_find(p)
  \/ findSimilarSongs_close(p)
  \/ Return(p)

NextRank ==
  \E p \in Tasks :
    /\ \A q \in Tasks \ {p} : task[q].pc = "idle"
    /\ RankStep(p)

SpecRank == InitRank /\ [][NextRank]_vars

\* The scoring: as the ranking, over corpora of up to MaxScoreCorpus songs
\* whose embeddings may have zero magnitude or another length.
ScoreCorpora == UNION {[1..n -> ScoreVecs] : n \in 0..MaxScoreCorpus}

InitScore ==
  /\ \E c \in ScoreCorpora :
       /\ records = [i \in 1..Len(c) |-> songData(i, i, FullBody, c[i])]
       /\ bucket = [i \in 1..Len(c) |-> "written"]
  /\ connOpen = FALSE
  /\ task = [p \in Tasks |-> IdleTask]

SpecScore == InitScore /\ [][NextRank]_vars

\* -------------------------------------------------------------------- claims

\* Number of documents stored under a url.
countOf(url) == Cardinality({i \in 1..Len(records) : records[i].songUrl = url})

min(a, b) == IF a < b THEN a ELSE b

\* C1: with calls made one after the other, an ingestion of a url that already
\* has a document finds exactly one document of that url and no step of it
\* changes the collection.
C1_DedupIdempotence ==
  [][\A p \in Tasks :
       (task[p].op = "ingest" /\ countOf(task[p].songUrl) >= 1)
         => (records' = records /\ countOf(task[p].songUrl) = 1)]_vars

\* C1: a second ingestion of a url has ended with the skip, one document stored.
C1_Witness ==
  \E p \in Tasks :
    /\ task[p].pc = "done"
    /\ task[p].outcome = "skipped"
    /\ countOf(task[p].songUrl) = 1

\* C2: the collection never holds two documents of one url.
C2_SourceKeyUnique == \A url \in SongUrls : countOf(url) <= 1

\* C3: every document's audioFileId is the id of a file fully written to the
\* bucket.
C3_RecordAfterBlob ==
  \A i \in 1..Len(records) :
    /\ records[i].audioFileId \in 1..Len(bucket)
    /\ bucket[records[i].audioFileId] = "written"

\* C3: an ingestion has inserted its document while another upload is partial.
C3_Witness ==
  /\ \E p \in Tasks : task[p].outcome = "inserted"
  /\ \E i \in 1..Len(bucket) : bucket[i] = "partial"

\* The analysis service has answered an ingestion with a non-success status or
\* with a document that lacks its summary.
serviceFailed(t) ==
  /\ t.op = "ingest"
  /\ t.response.json
  /\ (~t.response.ok \/ ~t.response.body.summary.defined)

\* A stage of the ingestion has failed: it threw, or the analysis service
\* failed.
stageFailed(t) ==
  /\ t.op = "ingest"
  /\ (t.thrown # "none" \/ serviceFailed(t))

\* C4: once a stage of an ingestion has failed, the ingestion makes no further
\* call and inserts no document.
C4_AbortOnFirstError ==
  [][\A p \in Tasks :
       (stageFailed(task[p]) /\ task'[p].op = "ingest")
         => (task'[p].calls = task[p].calls /\ task'[p].outcome # "inserted")]_vars

\* C5: after a failed answer of the analysis service the ingestion has called
\* neither the embedding model, nor the payload source, nor the bucket, nor the
\* collection.
C5_ServiceFailureStopsIngest ==
  \A p \in Tasks :
    serviceFailed(task[p])
      => task[p].calls \cap {"embedContent", "getSongBuffer", "uploadToGridFS",
                             "insertOne"} = {}

\* A successful, well-formed answer with an optional mapping missing.
optionalMissing(r) ==
  /\ r.json
  /\ r.ok
  /\ r.body.summary.defined
  /\ assembleThrows(r.body)

\* C6: an ingestion whose answer lacks an optional mapping and whose upload has
\* finished goes on to the insert; it never fails while building songData.
C6_MissingMappingIsEmpty ==
  [][\A p \in Tasks :
       (task[p].pc = "upload" /\ optionalMissing(task[p].response))
         => task'[p].thrown # "songData"]_vars

\* C7: an ingestion closes the connection at most once, not before its last
\* step, and exactly once by the time it ends after having connected.
C7_ReleaseExactlyOnce ==
  \A p \in Tasks :
    task[p].op = "ingest"
      => /\ task[p].closes <= 1
         /\ (task[p].pc # "done" => task[p].closes = 0)
         /\ (task[p].pc = "done" /\ task[p].connects >= 1 => task[p].closes = 1)

\* C7: an ingestion whose upload failed has ended, the connection closed once.
C7_Witness ==
  \E p \in Tasks :
    /\ task[p].op = "ingest"
    /\ task[p].pc = "done"
    /\ task[p].thrown = "uploadToGridFS"
    /\ task[p].closes = 1

\* C8: a search or a download that has connected has closed the connection by
\* the time it ends.
C8_SearchDownloadRelease ==
  \A p \in Tasks :
    (task[p].op \in {"search", "download"} /\ task[p].pc = "done"
       /\ task[p].connects >= 1)
      => task[p].closes >= 1

\* C9: all stored embeddings have the same length.
C9_SameDimension ==
  \A i, j \in 1..Len(records) :
    Len(records[i].embedding) = Len(records[j].embedding)

scoreGeq(x, y) == ~x.nan /\ ~y.nan /\ ~scoreLess(x, y)

\* x = y for two scores that are numbers.
scoreEq(x, y) == scoreGeq(x, y) /\ scoreGeq(y, x)

\* C11: the songs a search returns are in non-increasing order of score, songs
\* of equal score in the order of the corpus.
C11_SortedStable ==
  \A p \in Tasks :
    task[p].outcome = "returned"
      => \A i, j \in 1..Len(task[p].topSongs) :
           i < j
             => /\ scoreGeq(task[p].topSongs[i].similarity,
                            task[p].topSongs[j].similarity)
                /\ scoreEq(task[p].topSongs[i].similarity,
                           task[p].topSongs[j].similarity)
                     => task[p].topSongs[i].songId < task[p].topSongs[j].songId

\* Sum of the squares of a vector's components.
magnitude2(v) == sumTo(v, v, Len(v))

\* C12: no returned song carries a NaN score, and a song whose embedding, or
\* the query, has zero magnitude carries the score 0.
C12_ZeroMagnitudeScoresZero ==
  \A p \in Tasks :
    task[p].outcome = "returned"
      => \A i \in 1..Len(task[p].topSongs) :
           LET e == task[p].topSongs[i]
           IN /\ ~e.similarity.nan
              /\ (magnitude2(task[p].queryEmbedding) = 0
                    \/ magnitude2(records[e.songId].embedding) = 0)
                   => (e.similarity.dot = 0 /\ e.similarity.den2 # 0)

\* C13: a search returns a ranking only when every stored embedding has the
\* length of the query embedding.
C13_DimensionMismatchIsError ==
  \A p \in Tasks :
    task[p].outcome = "returned"
      => \A i \in 1..Len(records) :
           Len(records[i].embedding) = Len(task[p].queryEmbedding)

\* The single-space join of summary, keywords, moods and themes, written out
\* for each document of Bodies that has a summary.
expectedText(body) ==
  CASE body = FullBody -> "s k1 k2 m t"
    [] body = NoKeywords -> "s m t"
    [] body = NoMoods -> "s k1 k2 t"
    [] body = NoThemes -> "s k1 k2 m"
    [] body = SummaryOnly -> "s"

\* C14: the text an ingestion hands to the embedding model is the single-space
\* join of summary, keywords, moods and themes in this order, an absent
\* mapping adding nothing.
C14_ComposedText ==
  \A p \in Tasks :
    (task[p].op = "ingest" /\ task[p].response.json
       /\ task[p].response.body.summary.defined)
      => task[p].text = expectedText(task[p].response.body)

\* C14: the embedding model has answered an ingestion whose document has only
\* a summary and whose text was "s".
C14_Witness ==
  \E p \in Tasks :
    /\ task[p].pc = "getSongBuffer"
    /\ task[p].response.body = SummaryOnly
    /\ "embedContent" \in task[p].calls
    /\ task[p].text = "s"

\* C15: an error of the download stream or of the write stream rejects the
\* promise of the download.
C15_DownloadErrorsDelivered ==
  \A p \in Tasks :
    (task[p].op = "download" /\ task[p].thrown \in {"downloadStream", "writeStream"})
      => task[p].outcome = "rejected"

\* C16: the promise of an ingestion that failed settles differently from the
\* promise of an ingestion that inserted, and no ingestion ends in a rejection
\* nobody handles.
C16_DistinctOutcomes ==
  /\ \A p, q \in Tasks :
       (/\ task[p].op = "ingest" /\ task[p].pc = "done"
        /\ task[p].outcome = "inserted"
        /\ task[q].op = "ingest" /\ task[q].pc = "done"
        /\ task[q].thrown # "none")
         => settlement(task[p]) # settlement(task[q])
  /\ \A p \in Tasks : task[p].op = "ingest" => task[p].outcome # "rejected"

\* C17: an ingestion holds a file id only from the 'finish' of its own upload
\* stream, the file written; after the 'error' of the stream it holds none and
\* has failed.
C17_IdOnlyAfterFinish ==
  \A p \in Tasks :
    task[p].op = "ingest"
      => /\ task[p].gridFSId # 0
              => /\ task[p].gridFSId = task[p].uploadStream
                 /\ bucket[task[p].gridFSId] = "written"
         /\ task[p].thrown = "uploadToGridFS"
              => (task[p].gridFSId = 0 /\ task[p].outcome = "failed")

\* C17: one ingestion's upload has ended in 'error', another's in 'finish'.
C17_Witness ==
  \E p, q \in Tasks :
    /\ task[p].thrown = "uploadToGridFS"
    /\ task[p].gridFSId = 0
    /\ task[q].pc = "insertOne"
    /\ task[q].gridFSId # 0

\* C18: an ingestion that found its url in the collection has made no call but
\* the lookup and opened no upload stream, and its steps change neither the
\* collection nor the bucket; no step of anyone changes or removes a stored
\* document.
C18_SkipIsNoOp ==
  [][/\ \A p \in Tasks :
          task[p].outcome = "skipped"
            => /\ task[p].calls = {"findOne"}
               /\ task[p].uploadStream = 0
               /\ task'[p] # task[p] => (records' = records /\ bucket' = bucket)
     /\ Len(records') >= Len(records)
     /\ \A i \in 1..Len(records) : records'[i] = records[i]]_vars

\* C18: an ingestion has ended with the skip, having made the lookup only.
C18_Witness ==
  \E p \in Tasks :
    /\ task[p].pc = "done"
    /\ task[p].outcome = "skipped"
    /\ task[p].calls = {"findOne"}
    /\ Len(records) >= 1

\* C19: while no ingestion is under way, every file of the bucket is the
\* audioFileId of exactly one document.
C19_BlobOwnedByOneRecord ==
  (\A p \in Tasks : task[p].op = "ingest" => task[p].pc = "done")
    => \A i \in 1..Len(bucket) :
         Cardinality({j \in 1..Len(records) : records[j].audioFileId = i}) = 1

\* C20: a call with a read or a write of the collection or of the bucket under
\* way has the connection open.
C20_NoAccessAfterClose ==
  \A p \in Tasks : task[p].pc \in StoreAccess => connOpen

====
